---------------------------- MODULE Spec2Model ----------------------------
(***************************************************************************)
(* A model of script.py: the AMD GPU adapter get_amd_gpu_stats, the        *)
(* sampling loop monitor_system and the orchestration in main.             *)
(*                                                                         *)
(* Time is counted in ticks of 0.1 s, the blocking window of               *)
(* psutil.cpu_percent(interval=0.1), so every duration of the script is a  *)
(* whole number of ticks.  Numbers the script handles as floats are kept   *)
(* as exact fractions <<numerator, denominator>> in lowest terms; Python's *)
(* None is the empty tuple.                                                *)
(***************************************************************************)
EXTENDS Integers, Sequences, FiniteSets, TLC

VARIABLES
    amd_gpu_available,  \* module global set by the import of pyadl
    pc,                 \* position of the control flow
    now,                \* the wall clock, time.time(), in ticks
    duration,           \* monitor_system's argument
    interval,           \* monitor_system's argument
    end_time,           \* monitor_system's local
    data,               \* monitor_system's list of samples / the DataFrame
    gpu_time,           \* how long the most recent GPU read took
    out,                \* what was printed so far
    report,             \* the means main computed from the DataFrame
    files,              \* the CSV files written
    env,                \* the driver's behaviour seen by one adapter call
    result              \* the outcome of that adapter call

vars == <<amd_gpu_available, pc, now, duration, interval, end_time, data,
          gpu_time, out, report, files, env, result>>

---------------------------------------------------------------------------
(* Bounds of the model *)

MaxDuration == 2

MaxInterval == 2

MaxGpuDelay == 1

MaxSamples == 2

(* Program constants, in ticks of 0.1 s *)

TicksPerSecond == 10

CpuWindow == 1

MainDuration == 200

MainInterval == 10

MilliPerUnit == 1000

---------------------------------------------------------------------------
(* Numbers *)

None == <<>>

RECURSIVE GCD(_, _)
GCD(a, b) == IF b = 0 THEN a ELSE GCD(b, a % b)

Frac(n, d) == LET g == GCD(n, d) IN <<n \div g, d \div g>>

Num(n) == <<n, 1>>

TrueDiv(q, k) == Frac(q[1], q[2] * k)

FracAdd(p, q) == Frac(p[1] * q[2] + q[1] * p[2], p[2] * q[2])

\* round(q * 10^k) to the nearest integer, ties to even, as '%.kf' prints
Scaled(q, scale) ==
    LET n == q[1] * scale
        f == n \div q[2]
        r == n % q[2]
    IN  IF 2 * r > q[2] THEN f + 1
        ELSE IF 2 * r < q[2] THEN f
        ELSE IF f % 2 = 0 THEN f ELSE f + 1

\* f"{x:.1f}"
Fmt1(q) == <<"f", Scaled(q, 10) \div 10, Scaled(q, 10) % 10>>

\* f"{x:.2f}"
Fmt2(q) == <<"f", Scaled(q, 100) \div 100, Scaled(q, 100) % 100>>

\* str(x) of a number
Str(q) == <<"s", q>>

NA == <<"N/A">>

---------------------------------------------------------------------------
(* What the driver can answer *)

UtilReadings == {Num(0), Num(40)}

TempReadings == {Num(55)}

PowerReadings == {Num(30)}

PowerValueReadings == {Num(45000)}

SteadyCpu == Frac(125, 10)

CpuReadings == {Num(0), SteadyCpu}

\* Python's exception classes: all but the interrupts derive from Exception
Bases(c) ==
    IF c \in {"KeyboardInterrupt", "SystemExit"} THEN {c, "BaseException"}
    ELSE {c, "Exception", "BaseException"}

IsInstance(c, class) == class \in Bases(c)

Value(v) == [kind |-> "value", val |-> v, exc |-> ""]

Raises(c) == [kind |-> "raise", val |-> None, exc |-> c]

Unsupported == Raises("AttributeError")

Failure == Raises("ADLError")

Ok == Value(None)

SubOutcomes(readings) == {Value(v) : v \in readings} \cup {Unsupported, Failure}

GpuEnvs ==
    [ getInstance            : {Ok, Failure, Unsupported},
      getDevices             : {Value(Num(0)), Value(Num(1)), Failure, Unsupported},
      getCurrentUsage        : SubOutcomes(UtilReadings),
      getCurrentTemperature  : SubOutcomes(TempReadings),
      getCurrentPower        : SubOutcomes(PowerReadings),
      getCurrentPowerValue   : SubOutcomes(PowerValueReadings) ]

NoEnv ==
    [ getInstance |-> Ok, getDevices |-> Value(Num(0)),
      getCurrentUsage |-> Unsupported, getCurrentTemperature |-> Unsupported,
      getCurrentPower |-> Unsupported, getCurrentPowerValue |-> Unsupported ]

---------------------------------------------------------------------------
(* get_amd_gpu_stats *)

Stats0 == [utilization |-> None, temperature |-> None, power |-> None]

\* the state of one run of the function body: the stats dictionary, the
\* driver methods called so far, and the exception in flight ("" for none)
Run0 == [stats |-> Stats0, calls |-> <<>>, exc |-> ""]

Called(st, method) == [st EXCEPT !.calls = Append(@, method)]

DiagLine(e) == [kind |-> "diag", text |-> "Error al leer GPU AMD", exc |-> e]

Returned(triple, calls, printed) ==
    [kind |-> "return", value |-> triple, exc |-> "", calls |-> calls,
     printed |-> printed]

Raised(e, calls) ==
    [kind |-> "raise", value |-> <<None, None, None>>, exc |-> e,
     calls |-> calls, printed |-> <<>>]

NoResult == Returned(<<None, None, None>>, <<>>, <<>>)

\* try: stats[key] = gpu.method() / except AttributeError: pass
ReadUtilization(st, e) ==
    LET o == e.getCurrentUsage
        c == Called(st, "getCurrentUsage")
    IN  IF o.kind = "value" THEN [c EXCEPT !.stats.utilization = o.val]
        ELSE IF IsInstance(o.exc, "AttributeError") THEN c
        ELSE [c EXCEPT !.exc = o.exc]

\* an unsupported temperature reading taken for a failure of the call
ReadTemperatureStrict(st, e) ==
    LET o == e.getCurrentTemperature
        c == Called(st, "getCurrentTemperature")
    IN  IF st.exc /= "" THEN st
        ELSE IF o.kind = "value" THEN [c EXCEPT !.stats.temperature = o.val]
        ELSE [c EXCEPT !.exc = o.exc]

ReadTemperature(st, e) ==
    LET o == e.getCurrentTemperature
        c == Called(st, "getCurrentTemperature")
    IN  IF st.exc /= "" THEN st
        ELSE IF o.kind = "value" THEN [c EXCEPT !.stats.temperature = o.val]
        ELSE IF IsInstance(o.exc, "AttributeError") THEN c
        ELSE [c EXCEPT !.exc = o.exc]

\* the milliwatt reading stored without the conversion to watts
ReadPowerValueRaw(st, e) ==
    LET o == e.getCurrentPowerValue
        c == Called(st, "getCurrentPowerValue")
    IN  IF o.kind = "value" THEN [c EXCEPT !.stats.power = o.val]
        ELSE IF IsInstance(o.exc, "AttributeError") THEN c
        ELSE [c EXCEPT !.exc = o.exc]

\* the handler of the power reading: the milliwatt reading of RX 400 cards
ReadPowerValue(st, e) ==
    LET o == e.getCurrentPowerValue
        c == Called(st, "getCurrentPowerValue")
    IN  IF o.kind = "value"
        THEN [c EXCEPT !.stats.power = TrueDiv(o.val, MilliPerUnit)]
        ELSE IF IsInstance(o.exc, "AttributeError") THEN c
        ELSE [c EXCEPT !.exc = o.exc]

ReadPower(st, e) ==
    LET o == e.getCurrentPower
        c == Called(st, "getCurrentPower")
    IN  IF st.exc /= "" THEN st
        ELSE IF o.kind = "value" THEN [c EXCEPT !.stats.power = o.val]
        ELSE IF IsInstance(o.exc, "AttributeError") THEN ReadPowerValue(c, e)
        ELSE [c EXCEPT !.exc = o.exc]

\* an outer handler that catches the unsupported case only
OuterCatchNarrow == "AttributeError"

\* the class the outer handler catches
OuterCatch == "Exception"

\* the body without the test for an empty device list: devices[0] raises
BodyNoDeviceCheck(e) ==
    LET c1 == Called(Run0, "getInstance")
        c2 == Called(c1, "getDevices")
    IN  IF e.getInstance.kind = "raise"
        THEN [kind |-> "raise", run |-> [c1 EXCEPT !.exc = e.getInstance.exc]]
        ELSE IF e.getDevices.kind = "raise"
        THEN [kind |-> "raise", run |-> [c2 EXCEPT !.exc = e.getDevices.exc]]
        ELSE IF e.getDevices.val = Num(0)
        THEN [kind |-> "raise", run |-> [c2 EXCEPT !.exc = "IndexError"]]
        ELSE LET st == ReadPower(ReadTemperature(ReadUtilization(c2, e), e), e)
             IN  [kind |-> IF st.exc = "" THEN "return" ELSE "raise", run |-> st]

\* the body of the outer try
Body(e) ==
    LET c1 == Called(Run0, "getInstance")
        c2 == Called(c1, "getDevices")
    IN  IF e.getInstance.kind = "raise"
        THEN [kind |-> "raise", run |-> [c1 EXCEPT !.exc = e.getInstance.exc]]
        ELSE IF e.getDevices.kind = "raise"
        THEN [kind |-> "raise", run |-> [c2 EXCEPT !.exc = e.getDevices.exc]]
        ELSE IF e.getDevices.val = Num(0)
        THEN [kind |-> "return", run |-> c2]
        ELSE LET st == ReadPower(ReadTemperature(ReadUtilization(c2, e), e), e)
             IN  [kind |-> IF st.exc = "" THEN "return" ELSE "raise", run |-> st]

get_amd_gpu_stats(available, e) ==
    IF ~available THEN Returned(<<None, None, None>>, <<>>, <<>>)
    ELSE LET b == Body(e)
             s == b.run.stats
         IN  IF b.kind = "return"
             THEN Returned(<<s.utilization, s.temperature, s.power>>,
                           b.run.calls, <<>>)
             ELSE IF IsInstance(b.run.exc, OuterCatch)
             THEN Returned(<<None, None, None>>, b.run.calls,
                           <<DiagLine(b.run.exc)>>)
             ELSE Raised(b.run.exc, b.run.calls)

---------------------------------------------------------------------------
(* The adapter on its own: one call against every behaviour of the driver *)

Idle ==
    /\ now = 0 /\ duration = 0 /\ interval = 0 /\ end_time = 0
    /\ data = <<>> /\ gpu_time = 0 /\ out = <<>>
    /\ report = None /\ files = <<>>

InitAdapter ==
    /\ amd_gpu_available \in BOOLEAN
    /\ pc = "get_amd_gpu_stats"
    /\ env \in GpuEnvs
    /\ result = NoResult
    /\ Idle

CallAdapter ==
    /\ pc = "get_amd_gpu_stats"
    /\ result' = get_amd_gpu_stats(amd_gpu_available, env)
    /\ out' = out \o result'.printed
    /\ pc' = IF result'.kind = "return" THEN "returned" ELSE "raised"
    /\ UNCHANGED <<amd_gpu_available, now, duration, interval, end_time, data,
                   gpu_time, report, files, env>>

NextAdapter == CallAdapter

SpecAdapter == InitAdapter /\ [][NextAdapter]_vars

---------------------------------------------------------------------------
(* monitor_system *)

\* what a caller of the adapter sees of one call
Observable(r) ==
    [kind |-> r.kind, value |-> r.value, exc |-> r.exc, printed |-> r.printed]

OutcomesWithLibrary == {Observable(get_amd_gpu_stats(TRUE, e)) : e \in GpuEnvs}

OutcomesWithoutLibrary == {Observable(get_amd_gpu_stats(FALSE, e)) : e \in GpuEnvs}

AdapterOutcomes(available) ==
    IF available THEN OutcomesWithLibrary ELSE OutcomesWithoutLibrary

Max(a, b) == IF a >= b THEN a ELSE b

\* time.strftime("%H:%M:%S"): the clock cut to whole seconds
strftime(t) == t \div TicksPerSecond

Sample(ts, cpu, triple) ==
    [timestamp |-> ts, cpu_util |-> cpu, gpu_util |-> triple[1],
     gpu_temp |-> triple[2], gpu_power |-> triple[3]]

\* {v or 'N/A'}: None and zero are both false
OrNA(v) == IF v = None \/ v[1] = 0 THEN NA ELSE Str(v)

\* f"{gpu_power:.1f}W" if gpu_power is not None else "N/A"
PowerDisplay(v) == IF v /= None THEN Fmt1(v) ELSE NA

StatusLine(s) ==
    [kind |-> "status", cpu |-> Fmt1(s.cpu_util), gpu |-> OrNA(s.gpu_util),
     temp |-> OrNA(s.gpu_temp), power |-> PowerDisplay(s.gpu_power)]

InfoLine(text) == [kind |-> "info", text |-> text]

\* the sleep that ends a tick counted as the whole interval
SleepTimeFull(i) == Max(0, i)

\* time.sleep(max(0, interval - 0.1))
SleepTime(i) == Max(0, i - CpuWindow)

\* a loop condition that runs one more tick when the clock is at end_time
LoopCondInclusive(t, end) == t <= end

\* while time.time() < end_time
LoopCond(t, end) == t < end

\* a loop that gives up after a failed GPU read
AfterReadBreak(r) ==
    IF r.kind /= "return" THEN "raised"
    ELSE IF r.printed /= <<>> THEN "finished" ELSE "running"

\* where the loop body goes after the adapter call: on, or out with the
\* exception the adapter let through
AfterRead(r) == IF r.kind = "return" THEN "running" ELSE "raised"

InitMonitor ==
    /\ amd_gpu_available \in BOOLEAN
    /\ pc = "monitor_system"
    /\ now = 0
    /\ duration \in 0..MaxDuration
    /\ interval \in 0..MaxInterval
    /\ end_time = 0
    /\ data = <<>> /\ gpu_time = 0 /\ out = <<>>
    /\ report = None /\ files = <<>>
    /\ env = NoEnv /\ result = NoResult

\* lines 61-65
MonitorCall ==
    /\ pc = "monitor_system"
    /\ data' = <<>>
    /\ end_time' = now + duration
    /\ out' = out \o <<InfoLine("Iniciando monitoreo"),
                       InfoLine(IF amd_gpu_available THEN "GPU AMD detectada: Si"
                                ELSE "GPU AMD detectada: No")>>
    /\ pc' = "running"
    /\ UNCHANGED <<amd_gpu_available, now, duration, interval, gpu_time,
                   report, files, env, result>>

\* lines 67-87: one iteration of the loop, the CPU reading, the time of the
\* GPU read and the adapter's outcome drawn from the given sets
TickWith(cpus, delays, outcomes) ==
    /\ pc = "running"
    /\ LoopCond(now, end_time)
    /\ \E cpu \in cpus, g \in delays, r \in outcomes :
          LET read == now + CpuWindow + g
              s    == Sample(strftime(read), cpu, r.value)
          IN  /\ gpu_time' = g
              /\ pc' = AfterRead(r)
              /\ IF r.kind = "return"
                 THEN /\ data' = Append(data, s)
                      /\ out' = out \o r.printed \o <<StatusLine(s)>>
                      /\ now' = IF pc' = "running" THEN read + SleepTime(interval)
                                ELSE read
                 ELSE /\ data' = data
                      /\ out' = out \o r.printed
                      /\ now' = read
    /\ UNCHANGED <<amd_gpu_available, duration, interval, end_time, report,
                   files, env, result>>

Tick == TickWith(CpuReadings, 0..MaxGpuDelay, AdapterOutcomes(amd_gpu_available))

\* lines 67 and 89: the condition fails and the DataFrame is returned
LoopExit ==
    /\ pc = "running"
    /\ ~LoopCond(now, end_time)
    /\ pc' = "finished"
    /\ UNCHANGED <<amd_gpu_available, now, duration, interval, end_time, data,
                   gpu_time, out, report, files, env, result>>

NextMonitor == MonitorCall \/ Tick \/ LoopExit

SpecMonitor == InitMonitor /\ [][NextMonitor]_vars

\* the script is one thread that never waits for anything but the clock
SpecMonitorFair == SpecMonitor /\ WF_vars(NextMonitor)

---------------------------------------------------------------------------
(* main *)

Unavailable == <<"unavailable">>

Column(d, key) == [i \in 1..Len(d) |-> d[i][key]]

\* Series.isnull().all()
IsNullAll(col) == \A i \in 1..Len(col) : col[i] = None

NotNull(v) == v /= None

RECURSIVE SumSeq(_)
SumSeq(col) == IF col = <<>> THEN Num(0) ELSE FracAdd(Head(col), SumSeq(Tail(col)))

\* a mean that takes a missing value for a zero
MeanNullAsZero(col) ==
    LET p == SelectSeq(col, NotNull)
    IN  TrueDiv(SumSeq(p), Len(col))

\* Series.mean(): missing values are skipped
Mean(col) ==
    LET p == SelectSeq(col, NotNull)
    IN  TrueDiv(SumSeq(p), Len(p))

\* lines 117-133: what main works out of the DataFrame
GpuAggregate(col) == IF ~IsNullAll(col) THEN Mean(col) ELSE Unavailable

AggregateReport(d) ==
    [cpu_util  |-> Mean(Column(d, "cpu_util")),
     gpu_util  |-> GpuAggregate(Column(d, "gpu_util")),
     gpu_temp  |-> GpuAggregate(Column(d, "gpu_temp")),
     gpu_power |-> GpuAggregate(Column(d, "gpu_power"))]

ResultLine(metric, v) ==
    [kind |-> "result", metric |-> metric,
     text |-> IF v = Unavailable THEN Unavailable ELSE Fmt2(v)]

ReportLines(available, rep) ==
    <<InfoLine("Resultados finales"), ResultLine("cpu_util", rep.cpu_util)>>
    \o (IF available
        THEN <<ResultLine("gpu_util", rep.gpu_util),
               ResultLine("gpu_temp", rep.gpu_temp),
               ResultLine("gpu_power", rep.gpu_power)>>
        ELSE <<>>)

Banner ==
    <<InfoLine("Sistema de Monitoreo para AMD RX 460 en Windows 10"),
      InfoLine("Version adaptada para RX 400 series"),
      InfoLine("Verificando dependencias...")>>

GuidanceLine(text) == [kind |-> "guidance", text |-> text]

Guidance ==
    <<GuidanceLine("ADL no disponible. Instala pyadl para monitorear la GPU AMD"),
      GuidanceLine("Ejecuta: pip install pyadl"),
      GuidanceLine("Asegurate de tener los drivers AMD Adrenalin instalados"),
      GuidanceLine("Reinicia despues de instalar los drivers")>>

\* a main that monitors the CPU alone when pyadl is missing
StopsWithoutGpuNever(available) == FALSE

\* if not amd_gpu_available: ... return
StopsWithoutGpu(available) == ~available

\* DataFrame.to_csv(index=False): a missing value is an empty field
CsvField(v) == IF v = None THEN <<"">> ELSE Str(v)

CsvHeader == <<"timestamp", "cpu_util", "gpu_util", "gpu_temp", "gpu_power">>

CsvRow(s) ==
    <<Str(Num(s.timestamp)), CsvField(s.cpu_util), CsvField(s.gpu_util),
      CsvField(s.gpu_temp), CsvField(s.gpu_power)>>

CsvFile(t, d) ==
    [name   |-> <<"rx460_monitor", strftime(t)>>,
     header |-> CsvHeader,
     rows   |-> [i \in 1..Len(d) |-> CsvRow(d[i])]]

\* str.lower() on the answers that are typed
Lower(c) == IF c = "S" THEN "s" ELSE IF c = "N" THEN "n" ELSE c

Answers == {"s", "S", "n", ""}

InitMain ==
    /\ amd_gpu_available \in BOOLEAN
    /\ pc = "main"
    /\ env \in GpuEnvs
    /\ result = NoResult
    /\ Idle

\* lines 92-113, up to the call of monitor_system
MainStart ==
    /\ pc = "main"
    /\ IF StopsWithoutGpu(amd_gpu_available)
       THEN /\ out' = out \o Banner \o Guidance
            /\ pc' = "done"
            /\ UNCHANGED <<duration, interval>>
       ELSE /\ out' = out \o Banner
            /\ duration' = MainDuration
            /\ interval' = MainInterval
            /\ pc' = "monitor_system"
    /\ UNCHANGED <<amd_gpu_available, now, end_time, data, gpu_time, report,
                   files, env, result>>

\* the loop against a steady machine: the driver answers every call the same
\* way, the CPU load does not change and a GPU read takes no time
MainTick ==
    TickWith({SteadyCpu}, {0},
             {Observable(get_amd_gpu_stats(amd_gpu_available, env))})

\* lines 115-133
Report ==
    /\ pc = "finished"
    /\ IF data = <<>>
       THEN \* df['cpu_util'] of a DataFrame without columns: KeyError
            /\ pc' = "raised"
            /\ UNCHANGED <<report, out>>
       ELSE /\ report' = AggregateReport(data)
            /\ out' = out \o ReportLines(amd_gpu_available, report')
            /\ pc' = "prompt"
    /\ UNCHANGED <<amd_gpu_available, now, duration, interval, end_time, data,
                   gpu_time, files, env, result>>

\* lines 135-140
Prompt ==
    /\ pc = "prompt"
    /\ \E answer \in Answers :
          IF Lower(answer) = "s"
          THEN /\ files' = Append(files, CsvFile(now, data))
               /\ out' = out \o <<[kind |-> "prompt", text |-> "Guardar datos en CSV? (s/n)"],
                                  InfoLine("Datos guardados")>>
          ELSE /\ files' = files
               /\ out' = out \o <<[kind |-> "prompt", text |-> "Guardar datos en CSV? (s/n)"]>>
    /\ pc' = "done"
    /\ UNCHANGED <<amd_gpu_available, now, duration, interval, end_time, data,
                   gpu_time, report, env, result>>

NextMain == MainStart \/ MonitorCall \/ MainTick \/ LoopExit \/ Report \/ Prompt

SpecMain == InitMain /\ [][NextMain]_vars

---------------------------------------------------------------------------
(* The aggregation on its own: main after monitor_system returned, over     *)
(* every short DataFrame a run with slow GPU reads can leave                *)

GpuTriples ==
    {r.value : r \in {o \in OutcomesWithLibrary : o.kind = "return"}}

Readings == [cpu : CpuReadings, gpu : GpuTriples]

\* the DataFrame of n ticks with the readings f, stamped evenly over the run
Collection(n, f) ==
    [i \in 1..n |-> Sample((i * strftime(MainDuration)) \div n, f[i].cpu, f[i].gpu)]

InitReport ==
    /\ amd_gpu_available = TRUE
    /\ pc = "finished"
    /\ now = MainDuration
    /\ duration = MainDuration
    /\ interval = MainInterval
    /\ end_time = MainDuration
    /\ \E n \in 1..MaxSamples : \E f \in [1..n -> Readings] : data = Collection(n, f)
    /\ gpu_time = 0
    /\ out = Banner
             \o <<InfoLine("Iniciando monitoreo"), InfoLine("GPU AMD detectada: Si")>>
             \o [i \in 1..Len(data) |-> StatusLine(data[i])]
    /\ report = None /\ files = <<>>
    /\ env = NoEnv /\ result = NoResult

NextReport == Report \/ Prompt

SpecReport == InitReport /\ [][NextReport]_vars

---------------------------------------------------------------------------
(* Properties of get_amd_gpu_stats, under SpecAdapter *)

AdapterDone == pc \in {"returned", "raised"}

None3 == <<None, None, None>>

Consulted(method) == \E i \in DOMAIN result.calls : result.calls[i] = method

\* a driver call that was made and raised something other than AttributeError
UnexpectedRaised ==
    \E i \in DOMAIN result.calls :
        LET o == env[result.calls[i]]
        IN  o.kind = "raise" /\ ~IsInstance(o.exc, "AttributeError")

DeviceFound ==
    /\ amd_gpu_available
    /\ env.getInstance.kind = "value"
    /\ env.getDevices.kind = "value"
    /\ env.getDevices.val /= Num(0)

\* C1: the call always returns a triple, whatever the driver does; and when
\* a driver call that was made raises an unexpected exception, the triple is
\* (None, None, None) and one diagnostic line is printed.
C1_NeverPropagates ==
    AdapterDone =>
        /\ pc = "returned"
        /\ result.kind = "return"
        /\ Len(result.value) = 3
        /\ UnexpectedRaised =>
              /\ result.value = None3
              /\ Len(result.printed) = 1
              /\ result.printed[1].kind = "diag"
              /\ out = result.printed

\* a call in which utilization was read and a later reading failed
C1_Witness ==
    /\ pc = "returned"
    /\ DeviceFound
    /\ env.getCurrentUsage.kind = "value"
    /\ env.getCurrentTemperature = Failure
    /\ Consulted("getCurrentTemperature")
    /\ result.value = None3
    /\ Len(out) = 1

\* every reading that is made is either a value or unsupported
NothingFails ==
    /\ DeviceFound
    /\ env.getCurrentUsage /= Failure
    /\ env.getCurrentTemperature /= Failure
    /\ env.getCurrentPower /= Failure
    /\ env.getCurrentPower = Unsupported => env.getCurrentPowerValue /= Failure

PowerUnsupported ==
    env.getCurrentPower = Unsupported /\ env.getCurrentPowerValue = Unsupported

\* C2: with a device found and no reading failing, each metric of the triple
\* is None exactly when the device does not support it and a number read
\* from the device otherwise, whatever the support of the other two.
C2_Independent ==
    (AdapterDone /\ NothingFails) =>
        /\ result.kind = "return"
        /\ result.value[1] = IF env.getCurrentUsage = Unsupported THEN None
                             ELSE env.getCurrentUsage.val
        /\ result.value[2] = IF env.getCurrentTemperature = Unsupported THEN None
                             ELSE env.getCurrentTemperature.val
        /\ result.value[3] = None <=> PowerUnsupported
        /\ env.getCurrentPower.kind = "value" =>
              result.value[3] = env.getCurrentPower.val
        /\ result.printed = <<>>

\* utilization unsupported, temperature and power read
C2_Witness ==
    /\ pc = "returned"
    /\ NothingFails
    /\ env.getCurrentUsage = Unsupported
    /\ result.value[1] = None
    /\ result.value[2] = Num(55)
    /\ result.value[3] = Num(30)

\* the power reading is reached and no call that is made fails
PowerReached == DeviceFound /\ Consulted("getCurrentPower") /\ ~UnexpectedRaised

\* C3: the direct watts reading wins and the milliwatt reading is then not
\* consulted; without it the milliwatt reading is consulted and divided by
\* 1000 (45000 mW is 45 W); with neither, power is None.
C3_TwoTierPower ==
    (AdapterDone /\ PowerReached) =>
        LET p == result.value[3]
            w == env.getCurrentPower
            m == env.getCurrentPowerValue
        IN  /\ w.kind = "value" =>
                  p = w.val /\ ~Consulted("getCurrentPowerValue")
            /\ (w = Unsupported /\ m.kind = "value") =>
                  /\ Consulted("getCurrentPowerValue")
                  /\ p /= None
                  /\ p[1] * 1000 = m.val[1] * p[2]
                  /\ m.val = Num(45000) => p = Num(45)
            /\ (w = Unsupported /\ m = Unsupported) => p = None

\* the fallback path on a raw reading of 45000 mW
C3_Witness ==
    /\ pc = "returned"
    /\ PowerReached
    /\ env.getCurrentPower = Unsupported
    /\ env.getCurrentPowerValue = Value(Num(45000))
    /\ result.value[3] = Num(45)

LibraryMissing == ~amd_gpu_available

NoDevice ==
    /\ amd_gpu_available
    /\ env.getInstance.kind = "value"
    /\ env.getDevices = Value(Num(0))

BulkInitFails ==
    /\ amd_gpu_available
    /\ \/ env.getInstance.kind = "raise"
       \/ env.getInstance.kind = "value" /\ env.getDevices.kind = "raise"

MissingCapability == LibraryMissing \/ NoDevice \/ BulkInitFails

\* C8 as stated: in each missing-capability case the call returns
\* (None, None, None) and prints a diagnostic.
C8_AsStated ==
    (AdapterDone /\ MissingCapability) =>
        /\ result.kind = "return"
        /\ result.value = None3
        /\ result.printed /= <<>>

\* C8 amended: in each missing-capability case the call returns
\* (None, None, None); a diagnostic is printed when getInstance or getDevices
\* raises, and nothing is printed when the library is missing or no device
\* is enumerated.
C8_Amended ==
    (AdapterDone /\ MissingCapability) =>
        /\ pc = "returned"
        /\ result.kind = "return"
        /\ result.value = None3
        /\ BulkInitFails =>
              Len(out) = 1 /\ out[1].kind = "diag" /\ out = result.printed
        /\ (LibraryMissing \/ NoDevice) => out = <<>> /\ result.printed = <<>>

\* the library is present and the driver lists no device: a silent return
C8_Witness ==
    /\ pc = "returned"
    /\ NoDevice
    /\ result.value = None3
    /\ out = <<>>

---------------------------------------------------------------------------
(* Properties of monitor_system, under SpecMonitor and SpecMonitorFair *)

IsStatus(l) == l.kind = "status"

StatusLines == SelectSeq(out, IsStatus)

\* wall-clock time since the loop started
Elapsed == now - (end_time - duration)

\* the tick during which the i-th printed line came out
TickOfLine(i) == Len(SelectSeq(SubSeq(out, 1, i), IsStatus)) + 1

\* C4 as stated: with interval <= duration, the loop ends with an elapsed
\* time in [duration, duration + interval).
C4_AsStated ==
    (pc = "finished" /\ interval <= duration) =>
        /\ Elapsed >= duration
        /\ Elapsed < duration + interval

\* C4 amended: with interval <= duration, the loop never ends before the
\* duration has elapsed and overshoots it by less than what its last tick
\* took, the 0.1 s CPU window plus the GPU read plus the sleep
\* max(0, interval - 0.1); this is less than one interval only when the
\* interval is at least 0.1 s and the last GPU read took no time.
C4_Amended ==
    (pc = "finished" /\ interval <= duration) =>
        /\ Elapsed >= duration
        /\ data = <<>> => Elapsed = duration /\ duration = 0
        /\ data /= <<>> =>
              Elapsed < duration + 1 + gpu_time
                        + (IF interval > 1 THEN interval - 1 ELSE 0)
        /\ (data /= <<>> /\ interval >= 1 /\ gpu_time = 0) =>
              Elapsed < duration + interval

\* a run that overshot its duration by a whole interval because of a slow
\* GPU read
C4_Witness ==
    /\ pc = "finished"
    /\ 1 <= interval /\ interval <= duration
    /\ gpu_time > 0
    /\ Len(data) >= 2
    /\ Elapsed >= duration + interval

\* C5: a failed GPU read costs the loop nothing but that tick's GPU values:
\* every tick appends one sample with a CPU value, the tick of a diagnostic
\* has its sample with the three GPU values None, no exception leaves the
\* loop, and the loop ends only when the duration has elapsed.
C5_FailureAbsorbed ==
    /\ pc \in {"monitor_system", "running", "finished"}
    /\ Len(StatusLines) = Len(data)
    /\ \A k \in 1..Len(data) : data[k].cpu_util /= None
    /\ \A i \in 1..Len(out) :
          out[i].kind = "diag" =>
              LET k == TickOfLine(i)
              IN  /\ k <= Len(data)
                  /\ i < Len(out) /\ out[i + 1].kind = "status"
                  /\ data[k].gpu_util = None
                  /\ data[k].gpu_temp = None
                  /\ data[k].gpu_power = None
    /\ pc = "finished" => now >= end_time

\* the first read failed and a later tick recorded GPU values of its own
C5_Witness ==
    /\ pc = "finished"
    /\ Len(data) >= 2
    /\ \E i \in 1..Len(out) : out[i].kind = "diag" /\ TickOfLine(i) = 1
    /\ data[1].gpu_util = None
    /\ data[2].gpu_util = Num(40)
    /\ data[2].gpu_power = Num(45)

\* C9: the loop ends for every duration and every interval >= 0; it leaves
\* the running state only for the finished state, with the samples as they
\* are, and does so at the first check of the condition at which the clock
\* has reached end_time.
C9_Terminates ==
    /\ <>(pc = "finished")
    /\ [][pc = "running" /\ pc' /= "running" =>
             pc' = "finished" /\ now >= end_time /\ UNCHANGED <<now, data>>]_vars
    /\ [][pc = "running" /\ now >= end_time => pc' = "finished"]_vars
    /\ [][pc = "running" /\ now < end_time => pc' = "running" /\ now' > now]_vars
    /\ [][pc = "finished" => pc' = "finished"]_vars

\* a run with interval 0 that ended after two ticks
C9_Witness ==
    /\ pc = "finished"
    /\ interval = 0
    /\ duration = 2
    /\ Len(data) = 2

\* C10 as stated: each tick's status line shows N/A for a GPU metric exactly
\* when the metric is None in the sample of that tick, and the value
\* otherwise, a reading of 0 included.
C10_AsStated ==
    Len(StatusLines) = Len(data) =>
        \A k \in 1..Len(data) :
            LET l == StatusLines[k]
                s == data[k]
            IN  /\ l.gpu = NA <=> s.gpu_util = None
                /\ l.temp = NA <=> s.gpu_temp = None
                /\ l.power = NA <=> s.gpu_power = None
                /\ s.gpu_util /= None => l.gpu = Str(s.gpu_util)
                /\ s.gpu_temp /= None => l.temp = Str(s.gpu_temp)

---------------------------------------------------------------------------
(* Properties of main, under SpecMain and SpecReport *)

GpuMetrics == {"gpu_util", "gpu_temp", "gpu_power"}

\* the readings of the model have at most one decimal: ten times a reading
Tenfold(v) == (v[1] * 10) \div v[2]

RECURSIVE TotalTenfold(_, _)
TotalTenfold(key, n) ==
    IF n = 0 THEN 0
    ELSE TotalTenfold(key, n - 1)
         + (IF data[n][key] = None THEN 0 ELSE Tenfold(data[n][key]))

CountPresent(key) == Cardinality({i \in 1..Len(data) : data[i][key] /= None})

ResultText(metric) ==
    LET l == SelectSeq(out, LAMBDA x : x.kind = "result" /\ x.metric = metric)
    IN  l[1].text

\* C6: a GPU metric is reported unavailable exactly when it is None in every
\* sample; otherwise its reported mean times the number of samples that
\* have it is the sum of their values; the CPU mean times the number of all
\* samples is the sum of the CPU values.
C6_Aggregate ==
    pc \in {"prompt", "done"} =>
        /\ \A m \in GpuMetrics :
              /\ report[m] = Unavailable <=> CountPresent(m) = 0
              /\ ResultText(m) = Unavailable <=> CountPresent(m) = 0
              /\ CountPresent(m) > 0 =>
                    /\ report[m][1] * 10 * CountPresent(m)
                          = TotalTenfold(m, Len(data)) * report[m][2]
                    /\ ResultText(m) = Fmt2(report[m])
        /\ report.cpu_util[1] * 10 * Len(data)
              = TotalTenfold("cpu_util", Len(data)) * report.cpu_util[2]

\* utilization present in one of two samples, temperature in none
C6_Witness ==
    /\ pc = "prompt"
    /\ Len(data) = 2
    /\ data[1].gpu_util = None /\ data[2].gpu_util = Num(40)
    /\ data[1].gpu_temp = None /\ data[2].gpu_temp = None
    /\ data[1].cpu_util = Num(0) /\ data[2].cpu_util = SteadyCpu
    /\ report.gpu_util = Num(40)
    /\ report.gpu_temp = Unavailable
    /\ report.cpu_util = Frac(625, 100)

\* C7: without pyadl main goes from its start straight to its end: no
\* sample, no report, no file, no status line, no result and no prompt, and
\* at the end the guidance has been printed.
C7_NoLoopWithoutGpu ==
    ~amd_gpu_available =>
        /\ pc \in {"main", "done"}
        /\ data = <<>>
        /\ report = None
        /\ files = <<>>
        /\ \A i \in 1..Len(out) : out[i].kind \in {"info", "guidance"}
        /\ pc = "done" => out = Banner \o Guidance
        /\ pc = "main" => out = <<>>

\* main returned after the guidance
C7_Witness ==
    /\ ~amd_gpu_available
    /\ pc = "done"
    /\ Len(out) = Len(Banner) + 4
    /\ out[Len(out)].kind = "guidance"

=============================================================================
